---- MODULE Spec2Model ----
(***************************************************************************)
(* FixGPT: the probe contract (tools/base_tool.py), the probe catalog      *)
(* (ToolRegistry, tools/__init__.py) and the bounded investigation loop    *)
(* (hands.py run_hands_plan, brain.py plan_next_step).                     *)
(*                                                                         *)
(* Two specifications share the variables:                                 *)
(*   Spec          one run of run_hands_plan, from _initialize_resources   *)
(*                 to the report (or to the re-raised exception);          *)
(*   SpecRegistry  the ToolRegistry API on its own: register_tool and      *)
(*                 execute_tool with any probe id and any input map.       *)
(***************************************************************************)
EXTENDS Naturals, Integers, Sequences, FiniteSets, TLC

VARIABLES
    pc,            \* position of run_hands_plan
    max_steps,     \* config_loader.get_max_steps()
    step_count,    \* hands.py:481
    history,       \* hands.py:480, list of {"step", "output"}
    whole_plan,    \* hands.py:482
    current_step,  \* hands.py:491
    planSeen,      \* the history argument of the latest plan_next_step call
    planCalls,     \* number of plan_next_step calls (llm().ainvoke in brain.py:116)
    summaryCalls,  \* number of summarise_output calls
    report,        \* value returned by run_hands_plan
    agentCalls,    \* tool calls the agent made in the current Runner.run
    stepFailed,    \* some dispatch of the current step returned success = False
    tools,         \* ToolRegistry._tools (its keys)
    lastCall,      \* the latest ToolRegistry.execute_tool call and what came of it
    cluster,       \* the inspected Kubernetes namespace (SpecCluster)
    arg,           \* the arguments of the function under study (SpecFunctions, SpecCatalog)
    ret            \* what it returned: <<>> before the call, <<value>> after

vars == <<pc, max_steps, step_count, history, whole_plan, current_step, planSeen,
          planCalls, summaryCalls, report, agentCalls, stepFailed, tools, lastCall,
          cluster, arg, ret>>

\* the variables the loop and the registry leave alone
auxVars == <<cluster, arg, ret>>

\* their value in the specifications that do not use them
AuxIdle == cluster = {} /\ arg = <<>> /\ ret = <<>>

loopVars == <<pc, max_steps, step_count, history, whole_plan, current_step, planSeen,
              planCalls, summaryCalls, report, agentCalls, stepFailed>>

(***************************************************************************)
(* Bounds of the model.                                                    *)
(***************************************************************************)
MaxSteps == 3        \* largest configured max_steps explored
MaxToolCalls == 1    \* tool calls the agent makes within one step
MaxRegistered == 2   \* probes registered in SpecRegistry

(***************************************************************************)
(* Probe descriptors (ToolMetadata.id and ToolMetadata.inputs).            *)
(* A constraint text is modelled as the sequence of its words; only the    *)
(* words that matter to validate_inputs are kept.                          *)
(***************************************************************************)
K8sTools == {"k8s_logs", "k8s_service_health", "kubectl_command", "kubectl_events",
             "service_connectivity"}
LokiTools == {"loki_logs", "loki_metrics"}
PrometheusTools == {"prometheus_query", "prometheus_alerts", "prometheus_targets"}
GitTools == {"git_commit_history", "git_deployment_analysis"}
ToolIds == K8sTools \cup LokiTools \cup PrometheusTools \cup GitTools

UnknownId == "no_such_tool"

TxtDefault == <<"string", "default">>
TxtPlain == <<"string", "Name", "of", "the", "service">>
TxtOptional == <<"string", "filter", "optional">>
TxtOptionalDefaults == <<"Kubernetes", "namespace", "optional", "defaults", "to">>

K8sLogsInputs ==
    ("service_name" :> TxtPlain) @@ ("namespace" :> TxtDefault) @@
    ("time_window_minutes" :> TxtDefault) @@ ("log_level" :> TxtOptional) @@
    ("limit" :> TxtDefault) @@ ("follow" :> TxtDefault)

K8sServiceHealthInputs ==
    ("service_name" :> TxtPlain) @@ ("namespace" :> TxtDefault)

KubectlInputs ==
    ("command" :> TxtPlain) @@ ("namespace" :> TxtOptionalDefaults) @@
    ("output_format" :> TxtOptionalDefaults) @@ ("additional_flags" :> TxtOptional)

KubectlEventsInputs ==
    ("namespace" :> TxtOptionalDefaults) @@ ("event_type" :> TxtOptionalDefaults) @@
    ("reason_filter" :> TxtOptional) @@ ("time_window_minutes" :> TxtOptionalDefaults) @@
    ("limit" :> TxtOptionalDefaults)

ServiceConnectivityInputs ==
    ("service_name" :> TxtPlain) @@ ("namespace" :> TxtOptionalDefaults) @@
    ("port" :> TxtOptionalDefaults) @@ ("protocol" :> TxtOptionalDefaults) @@
    ("health_path" :> TxtOptionalDefaults) @@ ("timeout_seconds" :> TxtOptionalDefaults)

LokiLogsInputs ==
    ("query" :> TxtPlain) @@ ("start_time" :> TxtOptional) @@
    ("end_time" :> TxtOptionalDefaults) @@ ("limit" :> TxtDefault) @@
    ("direction" :> TxtDefault) @@ ("step" :> TxtOptional)

LokiMetricsInputs ==
    ("query" :> TxtPlain) @@ ("start_time" :> TxtOptional) @@
    ("end_time" :> TxtOptionalDefaults) @@ ("step" :> TxtDefault)

PrometheusQueryInputs == ("query" :> TxtPlain)

PrometheusAlertsInputs ==
    ("source" :> TxtDefault) @@ ("state" :> TxtOptional) @@ ("filter" :> TxtOptional)

PrometheusTargetsInputs == ("state" :> TxtDefault)

GitCommitHistoryInputs ==
    ("since" :> TxtDefault) @@ ("until" :> TxtOptionalDefaults) @@
    ("author" :> TxtOptional) @@ ("grep" :> TxtOptional) @@
    ("file_path" :> TxtOptional) @@ ("limit" :> TxtDefault) @@
    ("include_diff" :> TxtDefault) @@ ("branch" :> TxtDefault)

GitDeploymentAnalysisInputs ==
    ("since" :> TxtDefault) @@ ("deployment_patterns" :> TxtDefault) @@
    ("include_merges" :> TxtDefault) @@ ("analyze_frequency" :> TxtDefault)

\* tool.metadata.inputs
MetadataInputs(t) ==
    CASE t = "k8s_logs" -> K8sLogsInputs
      [] t = "k8s_service_health" -> K8sServiceHealthInputs
      [] t = "kubectl_command" -> KubectlInputs
      [] t = "kubectl_events" -> KubectlEventsInputs
      [] t = "service_connectivity" -> ServiceConnectivityInputs
      [] t = "loki_logs" -> LokiLogsInputs
      [] t = "loki_metrics" -> LokiMetricsInputs
      [] t = "prometheus_query" -> PrometheusQueryInputs
      [] t = "prometheus_alerts" -> PrometheusAlertsInputs
      [] t = "prometheus_targets" -> PrometheusTargetsInputs
      [] t = "git_commit_history" -> GitCommitHistoryInputs
      [] t = "git_deployment_analysis" -> GitDeploymentAnalysisInputs

\* a key no descriptor declares (the wrappers pass such keys, e.g. "tool_id")
ExtraKeys == {"tool_id", "registry"}

\* the input maps tried for probe id t, as their key sets
InputKeySets(t) ==
    IF t \in ToolIds THEN SUBSET ((DOMAIN MetadataInputs(t)) \cup ExtraKeys)
    ELSE SUBSET ExtraKeys

(***************************************************************************)
(* tools/base_tool.py: ToolResult, validate_inputs, ToolRegistry.          *)
(***************************************************************************)
ToolResult(success, data, error_message) ==
    [success |-> success, data |-> data, error_message |-> error_message]

\* str.lower() on one word
lower(w) ==
    CASE w = "Optional" -> "optional"
      [] w = "OPTIONAL" -> "optional"
      [] OTHER -> w

\* "optional" in input_desc.lower()
HasOptional(input_desc) ==
    \E i \in DOMAIN input_desc : lower(input_desc[i]) = "optional"

\* base_tool.py:56-60
required_inputs(t) ==
    {input_name \in DOMAIN MetadataInputs(t) : ~HasOptional(MetadataInputs(t)[input_name])}

\* base_tool.py:63
missing_inputs(t, keys) == required_inputs(t) \ keys

validate_inputs_NeverRaises(t, keys) == [raised |-> FALSE, message |-> "None"]

\* BaseTool.validate_inputs: raises ValueError when a required input is missing
validate_inputs(t, keys) ==
    IF missing_inputs(t, keys) # {}
    THEN [raised |-> TRUE, message |-> "Missing required inputs"]
    ELSE [raised |-> FALSE, message |-> "None"]

\* ToolRegistry.get_tool
get_tool(reg, tool_id) == IF tool_id \in reg THEN tool_id ELSE "None"

\* ToolRegistry.list_tools
list_tools(reg) == reg

(***************************************************************************)
(* The probes' execute, seen from the dispatcher.  ext is what the         *)
(* external command or HTTP call does.                                     *)
(***************************************************************************)
ExtOutcomes == {"ok", "nonzero", "exception", "never_returns"}

\* probes whose external call carries a timeout (aiohttp.ClientTimeout)
HasTimeout(t) == t \in LokiTools \cup PrometheusTools

FailData_Payload(t) == "payload"

\* data of a failed ToolResult: {} in kubectl_tool.py and connectivity_tool.py, None elsewhere
FailData(t) ==
    IF t \in {"kubectl_command", "kubectl_events", "service_connectivity"}
    THEN "empty" ELSE "None"

\* probes that fold a failed sub-command into a successful ToolResult
FoldsNonzero(t) == t \in {"k8s_service_health", "service_connectivity"}
FoldsException(t) == t = "service_connectivity"

Returned(r) == [kind |-> "return", result |-> r]
Raised(msg) == [kind |-> "raise", message |-> msg]
Hung == [kind |-> "hang"]

\* tool.execute(inputs): every probe wraps its body in try/except Exception
ProbeExecute(t, keys, ext) ==
    IF validate_inputs(t, keys).raised
    THEN Returned(ToolResult(FALSE, FailData(t), "probe failed: Missing required inputs"))
    ELSE CASE ext = "ok" -> Returned(ToolResult(TRUE, "payload", "None"))
           [] ext = "nonzero" ->
                IF FoldsNonzero(t) THEN Returned(ToolResult(TRUE, "payload", "None"))
                ELSE Returned(ToolResult(FALSE, FailData(t), "external call failed"))
           [] ext = "exception" ->
                IF FoldsException(t) THEN Returned(ToolResult(TRUE, "payload", "None"))
                ELSE Returned(ToolResult(FALSE, FailData(t), "probe failed: fault"))
           [] ext = "never_returns" ->
                IF HasTimeout(t)
                THEN Returned(ToolResult(FALSE, FailData(t), "probe failed: timeout"))
                ELSE Hung

NoCall == [kind |-> "none"]

\* current_step before the first planning call
NoStep == [kind |-> "None", tool |-> "None", seq |-> 0]

NotFoundResult_Success(tool_id) == ToolResult(TRUE, "None", "None")

\* base_tool.py:95-100
NotFoundResult(tool_id) == ToolResult(FALSE, "None", "Tool not found")

execute_tool_Propagates(reg, tool_id, keys, ext) ==
    IF get_tool(reg, tool_id) = "None"
    THEN [kind |-> "return", tool |-> tool_id, keys |-> keys, executed |-> FALSE,
          fault |-> "None",
          result |-> NotFoundResult(tool_id)]
    ELSE LET v == validate_inputs(tool_id, keys) IN
         IF v.raised
         THEN [kind |-> "raise", tool |-> tool_id, keys |-> keys, executed |-> FALSE,
               fault |-> v.message, result |-> "None"]
         ELSE LET r == ProbeExecute(tool_id, keys, ext) IN
              [kind |-> r.kind, tool |-> tool_id, keys |-> keys, executed |-> TRUE,
               fault |-> IF r.kind = "raise" THEN r.message ELSE "None",
               result |-> IF r.kind = "return" THEN r.result ELSE "None"]

\* ToolRegistry.execute_tool
execute_tool(reg, tool_id, keys, ext) ==
    IF get_tool(reg, tool_id) = "None"
    THEN [kind |-> "return", tool |-> tool_id, keys |-> keys, executed |-> FALSE,
          fault |-> "None",
          result |-> NotFoundResult(tool_id)]
    ELSE LET v == validate_inputs(tool_id, keys) IN
         IF v.raised
         THEN \* except Exception as e: ToolResult(False, None, str(e))
              [kind |-> "return", tool |-> tool_id, keys |-> keys, executed |-> FALSE,
               fault |-> v.message,
               result |-> ToolResult(FALSE, "None", v.message)]
         ELSE LET r == ProbeExecute(tool_id, keys, ext) IN
              CASE r.kind = "return" ->
                     [kind |-> "return", tool |-> tool_id, keys |-> keys, executed |-> TRUE,
                      fault |-> "None", result |-> r.result]
                [] r.kind = "raise" ->
                     [kind |-> "return", tool |-> tool_id, keys |-> keys, executed |-> TRUE,
                      fault |-> r.message,
                      result |-> ToolResult(FALSE, "None", r.message)]
                [] r.kind = "hang" ->
                     [kind |-> "hang", tool |-> tool_id, keys |-> keys, executed |-> TRUE,
                      fault |-> "None", result |-> "None"]

(***************************************************************************)
(* SpecRegistry: the ToolRegistry API.                                     *)
(***************************************************************************)
LoopIdle ==
    /\ pc = "idle"
    /\ max_steps = 0
    /\ step_count = 0
    /\ history = <<>>
    /\ whole_plan = <<>>
    /\ current_step = NoStep
    /\ planSeen = <<>>
    /\ planCalls = 0
    /\ summaryCalls = 0
    /\ report = "None"
    /\ agentCalls = 0
    /\ stepFailed = FALSE

InitRegistry ==
    /\ LoopIdle
    /\ AuxIdle
    /\ tools = {}
    /\ lastCall = NoCall

\* ToolRegistry.register_tool
register_tool(t) ==
    /\ pc = "idle"
    /\ lastCall = NoCall
    /\ Cardinality(tools \cup {t}) <= MaxRegistered
    /\ tools' = tools \cup {t}
    /\ UNCHANGED <<lastCall, loopVars>>
    /\ UNCHANGED auxVars

\* a caller awaits registry.execute_tool(tool_id, inputs)
ExecuteTool ==
    /\ pc = "idle"
    /\ lastCall = NoCall
    /\ \E tool_id \in ToolIds \cup {UnknownId} :
         \E keys \in InputKeySets(tool_id) :
           \E ext \in ExtOutcomes :
             lastCall' = execute_tool(tools, tool_id, keys, ext)
    /\ UNCHANGED <<tools, loopVars>>
    /\ UNCHANGED auxVars

\* the caller takes the ToolResult
TakeResult ==
    /\ pc = "idle"
    /\ lastCall.kind = "return"
    /\ lastCall' = NoCall
    /\ UNCHANGED <<tools, loopVars>>
    /\ UNCHANGED auxVars

NextRegistry ==
    \/ \E t \in ToolIds : register_tool(t)
    \/ ExecuteTool
    \/ TakeResult

SpecRegistry == InitRegistry /\ [][NextRegistry]_vars

(***************************************************************************)
(* tools/__init__.py initialize_default_tools: catalog population.         *)
(***************************************************************************)
Families == {"kubernetes", "loki", "prometheus", "git"}

\* the classes a family constructs, in construction order (tools/__init__.py:64-109)
FamilyTools(f) ==
    CASE f = "kubernetes" -> K8sTools
      [] f = "loki" -> LokiTools
      [] f = "prometheus" -> PrometheusTools
      [] f = "git" -> GitTools

\* __init__ assigns the fields _validate_config reads before calling BaseTool.__init__
AssignsBeforeValidate(f) ==
    CASE f = "kubernetes" -> TRUE      \* _validate_config reads no instance field
      [] f = "loki" -> FALSE           \* loki_tool.py:16-17, super().__init__ comes first
      [] f = "prometheus" -> TRUE      \* prometheus_tool.py:16-19
      [] f = "git" -> FALSE            \* git_tool.py:16-17, super().__init__ comes first

\* the environment of the constructors: is kubectl installed, is the Prometheus
\* URL set, is the Loki URL set, is repo_path a git repository with git installed
Envs == [kubectl : BOOLEAN, prometheus_url : BOOLEAN, loki_url : BOOLEAN, git_repo : BOOLEAN]

\* whether constructing the family's probes returns (TRUE) or raises (FALSE)
Constructs(f, env) ==
    /\ AssignsBeforeValidate(f)
    /\ f = "kubernetes" => env.kubectl
    /\ f = "prometheus" => env.prometheus_url
    /\ f = "loki" => env.loki_url
    /\ f = "git" => env.git_repo

initialize_default_tools_AbortOnFailure(enabled, env) ==
    IF \E g \in enabled : ~Constructs(g, env) THEN {}
    ELSE UNION {FamilyTools(f) : f \in enabled}

\* the registry after initialize_default_tools
initialize_default_tools(enabled, env) ==
    UNION {FamilyTools(f) : f \in {g \in enabled : Constructs(g, env)}}

(***************************************************************************)
(* brain.py plan_next_step.  An oracle response is described by: whether   *)
(* the text holds the literal PLAN COMPLETE, what the whole text is as     *)
(* JSON, and what a ``` fence in it (if any) holds as JSON.                *)
(***************************************************************************)
JsonKinds == {"step", "nonstep", "invalid"}
PlanTools == {"k8s_logs"}

Responses ==
    [complete : BOOLEAN, whole : JsonKinds, fenced : JsonKinds \cup {"none"},
     tool : PlanTools]

\* the string 'PLAN COMPLETE' that plan_next_step returns in place of a step
PLAN_COMPLETE == [kind |-> "PLAN COMPLETE", tool |-> "None"]

\* json.loads(content): the parsed value, or kind "error" for a JSONDecodeError
json_loads(kind, tool) ==
    CASE kind = "step" -> [kind |-> "step", tool |-> tool]
      [] kind = "nonstep" -> [kind |-> "nonstep", tool |-> "None"]
      [] kind = "invalid" -> [kind |-> "error", tool |-> "None"]

plan_next_step_ParseFirst(resp) ==
    LET content == IF resp.fenced # "none" THEN resp.fenced ELSE resp.whole
        step == json_loads(content, resp.tool)
    IN  IF step.kind = "step" THEN step
        ELSE IF resp.complete \/ step.kind = "error" THEN PLAN_COMPLETE
        ELSE step

\* brain.py:116-133, given the oracle's response
plan_next_step(resp) ==
    IF resp.complete THEN PLAN_COMPLETE
    ELSE LET content == IF resp.fenced # "none" THEN resp.fenced ELSE resp.whole
             step == json_loads(content, resp.tool)
         IN  IF step.kind = "error" THEN PLAN_COMPLETE ELSE step

(***************************************************************************)
(* hands.py create_agent_tool_wrapper: the functions the agent can call.   *)
(***************************************************************************)
\* parameters of the wrapper's signature without a default
SigRequired(t) ==
    CASE t \in {"prometheus_query"} -> {"query"}
      [] t \in {"k8s_service_health", "service_connectivity", "k8s_logs"} -> {"service_name"}
      [] t = "kubectl_command" -> {"command"}
      [] OTHER -> {}

\* parameters of the wrapper's signature typed Optional[...]
SigOptional(t) ==
    CASE t = "prometheus_query" -> {"query_type", "start_time", "end_time", "step", "timeout"}
      [] t = "k8s_service_health" -> {"namespace"}
      [] t = "kubectl_command" -> {"namespace", "output_format", "additional_flags"}
      [] t = "kubectl_events" ->
           {"namespace", "event_type", "reason_filter", "time_window_minutes", "limit"}
      [] t = "service_connectivity" ->
           {"namespace", "port", "protocol", "health_path", "timeout_seconds"}
      [] t = "k8s_logs" ->
           {"namespace", "time_window_minutes", "log_level", "limit", "follow"}
      [] t = "prometheus_alerts" -> {"source", "state", "filter"}
      [] t = "prometheus_targets" -> {"state"}
      [] OTHER -> {}

\* the argument sets the agent is given to choose from: every Optional parameter
\* set, one of them null, or all of them null
GivenSets(t) ==
    {SigOptional(t), {}} \cup {SigOptional(t) \ {p} : p \in SigOptional(t)}

HasDedicatedWrapper(t) ==
    t \in {"prometheus_query", "k8s_service_health", "kubectl_command", "kubectl_events",
           "service_connectivity", "k8s_logs", "prometheus_alerts", "prometheus_targets"}

\* kwargs = {k: v for k, v in locals().items() if v is not None}: the parameters
\* whose value is not None, and the closure's free variables
WrapperKwargs(t, given) ==
    IF HasDedicatedWrapper(t)
    THEN SigRequired(t) \cup given \cup {"tool_id", "registry"}
    ELSE {}

wrapper_Propagates(reg, t, given, ext) ==
    LET call == execute_tool(reg, t, WrapperKwargs(t, given), ext) IN
    CASE call.kind = "return" ->
           IF call.result.success
           THEN [kind |-> "reply", reply |-> "data", call |-> call]
           ELSE [kind |-> "raise", reply |-> "None", call |-> call]
      [] call.kind = "raise" -> [kind |-> "raise", reply |-> "None", call |-> call]
      [] call.kind = "hang" -> [kind |-> "hang", reply |-> "None", call |-> call]

\* the wrapper body: result.data on success, {"error": ...} otherwise
wrapper(reg, t, given, ext) ==
    LET call == execute_tool(reg, t, WrapperKwargs(t, given), ext) IN
    CASE call.kind = "return" ->
           [kind |-> "reply",
            reply |-> IF call.result.success THEN "data" ELSE "error",
            call |-> call]
      [] call.kind = "raise" -> [kind |-> "reply", reply |-> "error", call |-> call]
      [] call.kind = "hang" -> [kind |-> "hang", reply |-> "None", call |-> call]

(***************************************************************************)
(* hands.py run_hands_plan.                                                *)
(***************************************************************************)
\* result.final_output of one Runner.run
Outputs == {"final_output"}

Init ==
    /\ pc = "start"
    /\ max_steps \in 0..MaxSteps
    /\ step_count = 0
    /\ history = <<>>
    /\ whole_plan = <<>>
    /\ current_step = NoStep
    /\ planSeen = <<>>
    /\ planCalls = 0
    /\ summaryCalls = 0
    /\ report = "None"
    /\ agentCalls = 0
    /\ stepFailed = FALSE
    /\ tools = {}
    /\ lastCall = NoCall
    /\ AuxIdle

NoToolsAvailable_Never(reg) == FALSE

\* hands.py:361, over the wrappers built from registry.list_tools()
NoToolsAvailable(reg) == Cardinality(list_tools(reg)) = 0

\* hands.py:457 and 333-364: the catalog is populated and checked
InitializeResources(enabled, env) ==
    /\ pc = "start"
    /\ tools' = initialize_default_tools(enabled, env)
    /\ IF NoToolsAvailable(tools')
       THEN /\ pc' = "failed"
            /\ report' = "RuntimeError: No tools available"
       ELSE /\ pc' = "loop"
            /\ UNCHANGED report
    /\ UNCHANGED <<max_steps, step_count, history, whole_plan, current_step, planSeen,
                   planCalls, summaryCalls, agentCalls, stepFailed, lastCall>>
    /\ UNCHANGED auxVars

BudgetReached_OffByOne == step_count > max_steps

\* hands.py:487
BudgetReached == step_count >= max_steps

BudgetExhausted_OneEarly ==
    /\ pc = "loop"
    /\ step_count + 1 >= max_steps
    /\ pc' = "summarizing"
    /\ UNCHANGED <<max_steps, step_count, history, whole_plan, current_step, planSeen,
                   planCalls, summaryCalls, report, agentCalls, stepFailed, tools, lastCall>>
    /\ UNCHANGED auxVars

\* hands.py:487-489
BudgetExhausted ==
    /\ pc = "loop"
    /\ BudgetReached
    /\ pc' = "summarizing"
    /\ UNCHANGED <<max_steps, step_count, history, whole_plan, current_step, planSeen,
                   planCalls, summaryCalls, report, agentCalls, stepFailed, tools, lastCall>>
    /\ UNCHANGED auxVars

\* what the loop does with the value of plan_next_step (hands.py:493-498)
AfterPlan(step) ==
    IF step = PLAN_COMPLETE
    THEN /\ pc' = "summarizing"
         /\ UNCHANGED <<step_count, current_step>>
    ELSE /\ step_count' = step_count + 1
         /\ current_step' = [kind |-> step.kind, tool |-> step.tool, seq |-> planCalls + 1]
         /\ pc' = "executing"

\* hands.py:491-498: one planning call that returns, as far as the loop and
\* the registry are concerned
PlanReturns(resp) ==
    /\ pc = "loop"
    /\ ~BudgetReached
    /\ planCalls' = planCalls + 1
    /\ planSeen' = history
    /\ AfterPlan(plan_next_step(resp))
    /\ agentCalls' = 0
    /\ stepFailed' = FALSE
    /\ UNCHANGED <<max_steps, history, whole_plan, summaryCalls, report, tools, lastCall>>

\* hands.py:491-498: one planning call that returns
PlanNextStep(resp) ==
    /\ PlanReturns(resp)
    /\ UNCHANGED auxVars

\* brain.py:116 raises (the oracle call fails); hands.py:537-540 re-raises
PlanFault ==
    /\ pc = "loop"
    /\ ~BudgetReached
    /\ planCalls' = planCalls + 1
    /\ planSeen' = history
    /\ pc' = "failed"
    /\ report' = "Exception: planning call"
    /\ UNCHANGED <<max_steps, step_count, history, whole_plan, current_step,
                   summaryCalls, agentCalls, stepFailed, tools, lastCall>>
    /\ UNCHANGED auxVars

\* within Runner.run the agent calls one of its tools
AgentToolCall ==
    /\ pc = "executing"
    /\ lastCall.kind # "hang"
    /\ agentCalls < MaxToolCalls
    /\ \E t \in tools : \E given \in GivenSets(t) : \E ext \in ExtOutcomes :
         LET w == wrapper(tools, t, given, ext) IN
           /\ lastCall' = w.call
           /\ agentCalls' = agentCalls + 1
           /\ stepFailed' = (stepFailed \/ w.reply = "error" \/ w.kind = "raise")
           /\ IF w.kind = "raise"
              THEN /\ pc' = "failed"
                   /\ report' = "Exception: tool"
              ELSE UNCHANGED <<pc, report>>
    /\ UNCHANGED <<max_steps, step_count, history, whole_plan, current_step, planSeen,
                   planCalls, summaryCalls, tools>>
    /\ UNCHANGED auxVars

AppendPair_Prepend(h, step, output) == <<[step |-> step, output |-> output]>> \o h

\* hands.py:516
AppendPair(h, step, output) == Append(h, [step |-> step, output |-> output])

\* hands.py:508-523: Runner.run returns and the step is recorded
RunnerReturn(output) ==
    /\ pc = "executing"
    /\ lastCall.kind # "hang"
    /\ history' = AppendPair(history, current_step, output)
    /\ whole_plan' = Append(whole_plan, current_step)
    /\ pc' = "loop"
    /\ lastCall' = NoCall
    /\ UNCHANGED <<max_steps, step_count, current_step, planSeen, planCalls, summaryCalls,
                   report, agentCalls, stepFailed, tools>>
    /\ UNCHANGED auxVars

\* Runner.run raises (model call fails, turn limit); hands.py:537-540 re-raises
RunnerFault ==
    /\ pc = "executing"
    /\ lastCall.kind # "hang"
    /\ pc' = "failed"
    /\ report' = "Exception: agent run"
    /\ UNCHANGED <<max_steps, step_count, history, whole_plan, current_step, planSeen,
                   planCalls, summaryCalls, agentCalls, stepFailed, tools, lastCall>>
    /\ UNCHANGED auxVars

\* hands.py:528-535
Summarise ==
    /\ pc = "summarizing"
    /\ summaryCalls' = summaryCalls + 1
    /\ report' = "summary"
    /\ pc' = "done"
    /\ UNCHANGED <<max_steps, step_count, history, whole_plan, current_step, planSeen,
                   planCalls, agentCalls, stepFailed, tools, lastCall>>
    /\ UNCHANGED auxVars

\* hands.py:438 raises (the summarization call fails); hands.py:537-540 re-raises
SummariseFault ==
    /\ pc = "summarizing"
    /\ summaryCalls' = summaryCalls + 1
    /\ report' = "Exception: summarization call"
    /\ pc' = "failed"
    /\ UNCHANGED <<max_steps, step_count, history, whole_plan, current_step, planSeen,
                   planCalls, agentCalls, stepFailed, tools, lastCall>>
    /\ UNCHANGED auxVars

Next ==
    \/ \E enabled \in SUBSET Families : \E env \in Envs : InitializeResources(enabled, env)
    \/ BudgetExhausted
    \/ \E resp \in Responses : PlanNextStep(resp)
    \/ PlanFault
    \/ AgentToolCall
    \/ \E output \in Outputs : RunnerReturn(output)
    \/ RunnerFault
    \/ Summarise
    \/ SummariseFault

Spec == Init /\ [][Next]_vars

\* the run has ended: the report was returned or the exception re-raised
Terminated == pc \in {"done", "failed"}

(***************************************************************************)
(* Properties of the investigation loop and of the tool registry.          *)
(***************************************************************************)

\* C1: with step budget max_steps, the number of executed steps never
\* exceeds max_steps and the history never holds more than max_steps entries.
C1_StepBudget ==
    /\ step_count <= max_steps
    /\ Len(history) <= max_steps
    /\ Len(whole_plan) <= max_steps

\* the budget is used up: max_steps steps were executed and recorded
C1_Witness ==
    /\ pc = "summarizing"
    /\ max_steps > 1
    /\ step_count = max_steps
    /\ Len(history) = max_steps

\* the input map of the last dispatch to a registered probe lacks a parameter
\* whose constraint text does not contain the word "optional"
C2_LacksRequired ==
    /\ lastCall.kind # "none"
    /\ lastCall.tool \in tools
    /\ \E p \in DOMAIN MetadataInputs(lastCall.tool) :
         /\ p \notin lastCall.keys
         /\ \A i \in DOMAIN MetadataInputs(lastCall.tool)[p] :
              lower(MetadataInputs(lastCall.tool)[p][i]) # "optional"

\* C2: dispatching a registered probe with an input map that lacks a required
\* parameter yields a failed Outcome with a validation error message, and the
\* probe's execute is not invoked for that dispatch.
C2_MissingRequiredFails ==
    C2_LacksRequired =>
        /\ lastCall.kind = "return"
        /\ lastCall.result.success = FALSE
        /\ lastCall.result.error_message = "Missing required inputs"
        /\ lastCall.executed = FALSE

\* k8s_logs dispatched with service_name but without follow
C2_Witness ==
    /\ lastCall.kind = "return"
    /\ lastCall.tool = "k8s_logs"
    /\ "k8s_logs" \in tools
    /\ "service_name" \in lastCall.keys
    /\ "follow" \notin lastCall.keys
    /\ lastCall.result.success = FALSE
    /\ lastCall.executed = FALSE

\* C3: dispatching through the registry never raises to the caller: a call
\* that ends returns an Outcome, and a fault raised by validation or by the
\* probe's execute comes back as a failed Outcome carrying the fault's message.
C3_DispatchNeverRaises ==
    /\ lastCall.kind \in {"none", "return", "hang"}
    /\ lastCall.kind = "return" =>
         /\ DOMAIN lastCall.result = {"success", "data", "error_message"}
         /\ lastCall.result.success \in BOOLEAN
    /\ (lastCall.kind # "none" /\ lastCall.fault # "None") =>
         /\ lastCall.kind = "return"
         /\ lastCall.result.success = FALSE
         /\ lastCall.result.error_message = lastCall.fault

\* kubectl_command dispatched without its command: the ValueError is caught
C3_Witness ==
    /\ lastCall.kind = "return"
    /\ lastCall.tool = "kubectl_command"
    /\ "kubectl_command" \in tools
    /\ lastCall.fault = "Missing required inputs"
    /\ lastCall.result = ToolResult(FALSE, "None", "Missing required inputs")

\* one transition of the loop, as C4 constrains it
C4_Step ==
    /\ (/\ pc = "executing"
        /\ agentCalls' = agentCalls + 1
        /\ lastCall'.kind = "return"
        /\ lastCall'.result.success = FALSE)
         => (pc' = "executing" /\ stepFailed' /\ history' = history)
    /\ (pc = "executing" /\ stepFailed /\ pc' = "loop")
         => /\ Len(history') = Len(history) + 1
            /\ SubSeq(history', 1, Len(history)) = history
            /\ history'[Len(history')].step = current_step
    /\ (pc = "loop" /\ stepFailed /\ planCalls' = planCalls + 1)
         => /\ planSeen' = history
            /\ Len(history) = step_count
            /\ history[Len(history)].step = current_step

C5_Step ==
    /\ \/ history' = history
       \/ /\ pc = "executing"
          /\ \E o \in Outputs : history' = Append(history, [step |-> current_step, output |-> o])
    /\ planCalls' = planCalls + 1
         => /\ planSeen' = history
            /\ Len(history) = step_count
            /\ step_count > 0 => history[Len(history)].step = current_step

\* the pairs of the history are those of steps 1, 2, ... in that order
C5_InOrder ==
    /\ \A i \in 1..Len(history) : history[i].step.seq = i
    /\ Len(planSeen) <= Len(history)
    /\ SubSeq(history, 1, Len(planSeen)) = planSeen

\* C5: the history is append-only and in execution order: no pair is removed,
\* replaced or reordered, and the planning call for step N+1 receives a history
\* whose last entry is the pair recorded for step N.
C5_HistoryAppendOnly == [][C5_Step]_vars /\ []C5_InOrder

\* the third step is being executed and its planning call saw two pairs
C5_Witness ==
    /\ pc = "executing"
    /\ step_count = 3
    /\ Len(planSeen) = 2
    /\ planSeen = history
    /\ history[2].step.seq = 2

\* every planning call so far returned a step: each such call adds one to both
\* counters, a completion or a fault adds one to planCalls alone
C6_OracleAlwaysReturnedSteps == planCalls = step_count

\* C6: with an oracle that always returns a step and a step budget max_steps,
\* the run ends after exactly max_steps executed steps: the oracle was asked
\* exactly max_steps times, the history has max_steps entries when
\* summarization begins, and summarization is invoked exactly once.
C6_AlwaysStepOracle ==
    /\ summaryCalls <= 1
    /\ C6_OracleAlwaysReturnedSteps =>
         /\ planCalls <= max_steps
         /\ pc \in {"summarizing", "done"} =>
              /\ planCalls = max_steps
              /\ step_count = max_steps
              /\ Len(history) = max_steps
         /\ pc = "summarizing" => summaryCalls = 0
         /\ pc = "done" => summaryCalls = 1

\* three steps planned and executed, then one summarization
C6_Witness ==
    /\ pc = "done"
    /\ max_steps = 3
    /\ planCalls = 3
    /\ step_count = 3
    /\ Len(history) = 3
    /\ summaryCalls = 1
    /\ report = "summary"

\* C7: when the catalog is empty after configuration, the run ends with a
\* fatal error before any planning call: no step is executed, no history is
\* built, summarization is not invoked and no report is produced.
C7_EmptyCatalogIsFatal ==
    (pc # "start" /\ tools = {}) =>
        /\ pc = "failed"
        /\ report = "RuntimeError: No tools available"
        /\ planCalls = 0
        /\ step_count = 0
        /\ history = <<>>
        /\ summaryCalls = 0

\* the catalog came out empty and the run has failed
C7_Witness ==
    /\ pc = "failed"
    /\ tools = {}
    /\ max_steps > 0
    /\ report = "RuntimeError: No tools available"

\* C8: once the loop has started, no failure of a planning call, of a step or
\* of the summarization aborts the run: only a configuration error (here the
\* empty catalog) ends it with an error.
C8_OnlyConfigurationErrorsAbort == pc = "failed" => tools = {}

\* C9: every external command or API call of a probe is bounded by a timeout,
\* so a command that hangs comes back as a failed result and the loop still
\* progresses: no dispatch stays pending for ever and the run can always
\* continue until it has ended.
C9_ExternalCallsAreBounded ==
    /\ lastCall.kind # "hang"
    /\ Terminated \/ ENABLED Next

\* C10: an oracle response that is neither a step descriptor nor the completion
\* signal is treated as completion, so only step descriptors are executed and
\* recorded.
C10_NonStepIsCompletion ==
    /\ pc = "executing" => current_step.kind = "step"
    /\ \A i \in 1..Len(history) : history[i].step.kind = "step"

\* C11: in every executing step the probe dispatched is the one the step
\* descriptor names, and it is dispatched through the catalog exactly once
\* for the step before the step's pair is appended.
C11_NamedProbeDispatchedOnce ==
    /\ (pc = "executing" /\ lastCall.kind # "none") => lastCall.tool = current_step.tool
    /\ (pc = "loop" /\ step_count > 0) => agentCalls = 1

\* an Outcome as C12 wants it
C12_WellFormed(r) ==
    /\ r.success = TRUE => r.error_message = "None"
    /\ r.success = FALSE => (r.error_message # "None" /\ r.data \in {"None", "empty"})

\* C12: every Outcome returned by execute_tool or by a probe's execute has no
\* error message when success is true, and when success is false has an error
\* message and a payload that is None or empty.
C12_OutcomeShape ==
    /\ lastCall.kind = "return" => C12_WellFormed(lastCall.result)
    /\ (lastCall.kind # "none" /\ lastCall.tool \in ToolIds) =>
         \A ext \in ExtOutcomes :
            LET r == ProbeExecute(lastCall.tool, lastCall.keys, ext)
            IN  r.kind = "return" => C12_WellFormed(r.result)

\* kubectl_events ran and its command exited non-zero: failed, empty payload
C12_Witness ==
    /\ lastCall.kind = "return"
    /\ lastCall.tool = "kubectl_events"
    /\ lastCall.executed
    /\ lastCall.result = ToolResult(FALSE, "empty", "external call failed")

\* C13: dispatching an id that is not registered returns a failed Outcome whose
\* message says the tool was not found, and neither validation nor execute of
\* any probe runs.
C13_UnknownIdNotFound ==
    (lastCall.kind # "none" /\ lastCall.tool \notin tools) =>
        /\ lastCall.kind = "return"
        /\ lastCall.result.success = FALSE
        /\ lastCall.result.error_message = "Tool not found"
        /\ lastCall.executed = FALSE
        /\ lastCall.fault = "None"

\* k8s_logs is registered, loki_logs is dispatched with a full input map
C13_Witness ==
    /\ lastCall.kind = "return"
    /\ "k8s_logs" \in tools
    /\ lastCall.tool = "loki_logs"
    /\ "loki_logs" \notin tools
    /\ lastCall.keys = DOMAIN MetadataInputs("loki_logs")
    /\ lastCall.result.error_message = "Tool not found"

\* the ways an external call of probe t can fail and come back: non-zero exit
\* code or HTTP status other than 200, a raised fault, an elapsed timeout
C14_Failures(t) ==
    {"nonzero", "exception"} \cup (IF HasTimeout(t) THEN {"never_returns"} ELSE {})

\* C14: for every probe, when an external call it makes fails, execute returns
\* an Outcome with success = false and an error message, and does not raise.
C14_ExternalFailureFails ==
    (/\ lastCall.kind # "none"
     /\ lastCall.tool \in tools
     /\ missing_inputs(lastCall.tool, lastCall.keys) = {})
      => \A ext \in C14_Failures(lastCall.tool) :
            LET r == ProbeExecute(lastCall.tool, lastCall.keys, ext)
            IN  /\ r.kind = "return"
                /\ r.result.success = FALSE
                /\ r.result.error_message # "None"

(***************************************************************************)
(* SpecFunctions: the pure functions of the catalog population and of the  *)
(* health probe, each applied once to arguments drawn from bounded sets.   *)
(***************************************************************************)
MaxReplicas == 2      \* largest replica count of a deployment
MaxPods == 2          \* pods in the namespace
MaxDeployments == 1   \* deployments in the namespace
MaxEvents == 2        \* events returned by kubectl get events

\* every variable of the loop and of the registry at rest
OthersIdle ==
    /\ LoopIdle
    /\ tools = {}
    /\ lastCall = NoCall
    /\ cluster = {}

\* sequences over S of length at most n
RECURSIVE SeqsUpTo(_, _)
SeqsUpTo(S, n) ==
    IF n = 0 THEN {<<>>}
    ELSE LET shorter == SeqsUpTo(S, n - 1)
         IN  shorter \cup {Append(s, x) : s \in {t \in shorter : Len(t) = n - 1}, x \in S}

\* arguments of initialize_default_tools: the enabled families and the environment
PopulationArgs ==
    [fn : {"initialize_default_tools"}, enabled : SUBSET Families, env : Envs]

\* tools/__init__.py:38-128 applied to the arguments
ApplyInitializeDefaultTools ==
    /\ arg.fn = "initialize_default_tools"
    /\ ret = <<>>
    /\ ret' = <<initialize_default_tools(arg.enabled, arg.env)>>
    /\ UNCHANGED <<loopVars, tools, lastCall, cluster, arg>>

\* the result of one kubectl get deployment / kubectl get pods:
\* {"error": ...} or the parsed object, with or without a "status" key
DeploymentData ==
    [error : BOOLEAN, has_status : BOOLEAN, replicas : 0..MaxReplicas,
     readyReplicas : 0..MaxReplicas]

HealthArgs ==
    [fn : {"_assess_health"}, deployment_data : DeploymentData, pods_error : BOOLEAN]

\* K8sServiceHealthTool._assess_health (k8s_logs_tool.py:336-353)
assess_health(deployment_data, pods_error) ==
    IF deployment_data.error \/ pods_error THEN "unknown"
    ELSE IF deployment_data.has_status
         THEN IF deployment_data.readyReplicas = deployment_data.replicas
                 /\ deployment_data.replicas > 0
              THEN "healthy"
              ELSE IF deployment_data.readyReplicas > 0 THEN "degraded" ELSE "unhealthy"
         ELSE "unknown"

ApplyAssessHealth ==
    /\ arg.fn = "_assess_health"
    /\ ret = <<>>
    /\ ret' = <<assess_health(arg.deployment_data, arg.pods_error)>>
    /\ UNCHANGED <<loopVars, tools, lastCall, cluster, arg>>

\* one pod of kubectl get pods: status.phase and the ready flag of each
\* entry of status.containerStatuses
Pods ==
    [phase : {"Running", "Pending", "Failed"},
     containerStatuses : {<<>>, <<TRUE>>, <<TRUE, FALSE>>}]

\* one deployment of kubectl get deployments: status.replicas, status.readyReplicas
Deployments == [replicas : 0..MaxReplicas, readyReplicas : 0..MaxReplicas]

\* a kubectl result: has_items is FALSE for {"error": ...}
PodsResults ==
    {[has_items |-> FALSE, items |-> <<>>]}
      \cup [has_items : {TRUE}, items : SeqsUpTo(Pods, MaxPods)]

DeploymentsResults ==
    {[has_items |-> FALSE, items |-> <<>>]}
      \cup [has_items : {TRUE}, items : SeqsUpTo(Deployments, MaxDeployments)]

NamespaceArgs ==
    [fn : {"_assess_namespace_health"}, pods_result : PodsResults,
     deployments_result : DeploymentsResults]

\* all(c.get("ready", False) for c in container_statuses)
all_ready(container_statuses) ==
    \A i \in DOMAIN container_statuses : container_statuses[i]


\* k8s_logs_tool.py:433-438
IsRunningPod(pod) == pod.phase = "Running" /\ all_ready(pod.containerStatuses)

\* k8s_logs_tool.py:439-440 and 453-454
IsFailedPod(pod) ==
    \/ pod.phase = "Running" /\ ~all_ready(pod.containerStatuses)
    \/ pod.phase \notin {"Running", "Pending"}

\* k8s_logs_tool.py:471
IsHealthyDeployment(d) == d.readyReplicas = d.replicas /\ d.replicas > 0

overall_status_RunningFirst(failed_pods, unhealthy_deployments, running_pods) ==
    IF running_pods > 0 THEN "degraded"
    ELSE IF failed_pods = 0 /\ unhealthy_deployments = 0 THEN "healthy"
    ELSE "critical"

\* k8s_logs_tool.py:488-493
overall_status(failed_pods, unhealthy_deployments, running_pods) ==
    IF failed_pods = 0 /\ unhealthy_deployments = 0 THEN "healthy"
    ELSE IF running_pods > 0 THEN "degraded"
    ELSE "critical"

\* K8sServiceHealthTool._assess_namespace_health (k8s_logs_tool.py:410-495),
\* without recent_warnings, which does not enter the verdict
assess_namespace_health(pods_result, deployments_result) ==
    LET pods == IF pods_result.has_items THEN pods_result.items ELSE <<>>
        deps == IF deployments_result.has_items THEN deployments_result.items ELSE <<>>
        running_pods == Cardinality({i \in DOMAIN pods : IsRunningPod(pods[i])})
        failed_pods == Cardinality({i \in DOMAIN pods : IsFailedPod(pods[i])})
        pending_pods == Cardinality({i \in DOMAIN pods : pods[i].phase = "Pending"})
        healthy_deployments == Cardinality({i \in DOMAIN deps : IsHealthyDeployment(deps[i])})
        unhealthy_deployments == Cardinality({i \in DOMAIN deps : ~IsHealthyDeployment(deps[i])})
    IN  [total_pods |-> Len(pods),
         running_pods |-> running_pods,
         failed_pods |-> failed_pods,
         pending_pods |-> pending_pods,
         total_deployments |-> Len(deps),
         healthy_deployments |-> healthy_deployments,
         unhealthy_deployments |-> unhealthy_deployments,
         overall_status |-> overall_status(failed_pods, unhealthy_deployments, running_pods)]

ApplyAssessNamespaceHealth ==
    /\ arg.fn = "_assess_namespace_health"
    /\ ret = <<>>
    /\ ret' = <<assess_namespace_health(arg.pods_result, arg.deployments_result)>>
    /\ UNCHANGED <<loopVars, tools, lastCall, cluster, arg>>

\* events_data["items"][-20:] (k8s_logs_tool.py:296)
EventWindow == 20

\* event reasons and messages, and the keywords each contains once lowered
Reasons == {"OOMKilled", "Unhealthy", "ImagePullBackOff", "BackOff", "Scheduled"}

Messages ==
    {"Readiness probe failed: connection refused", "dial tcp: i/o timeout",
     "Started container"}

\* the keywords of k8s_logs_tool.py:314-323 found in reason.lower()
ReasonKeywords(reason) ==
    CASE reason = "OOMKilled" -> {"oomkilled"}
      [] reason = "Unhealthy" -> {"unhealthy"}
      [] reason = "ImagePullBackOff" -> {"imagepull", "backoff"}
      [] reason = "BackOff" -> {"backoff"}
      [] OTHER -> {}

\* the keywords of k8s_logs_tool.py:316-320 found in message.lower()
MessageKeywords(message) ==
    CASE message = "Readiness probe failed: connection refused" ->
           {"probe failed", "connection refused"}
      [] message = "dial tcp: i/o timeout" -> {"timeout"}
      [] OTHER -> {}

\* one item of kubectl get events; related says whether service_name is in
\* involvedObject.name or that name is empty (k8s_logs_tool.py:299)
Events ==
    [type : {"Warning", "Normal"}, reason : Reasons, message : Messages,
     related : BOOLEAN]

EventsArgs ==
    [fn : {"_filter_service_events"}, has_items : {TRUE},
     items : SeqsUpTo(Events, MaxEvents)]
      \cup {[fn |-> "_filter_service_events", has_items |-> FALSE, items |-> <<>>]}

BucketNames ==
    <<"oom_killed", "probe_failures", "image_pull_errors", "networking_issues",
      "restart_loops">>

bucket_of_RestartFirst(event) ==
    IF event.type # "Warning" THEN "none"
    ELSE IF "backoff" \in ReasonKeywords(event.reason)
              \/ "crashloop" \in ReasonKeywords(event.reason)
         THEN "restart_loops"
    ELSE IF "oomkilled" \in ReasonKeywords(event.reason) THEN "oom_killed"
    ELSE IF "probe failed" \in MessageKeywords(event.message)
              \/ "unhealthy" \in ReasonKeywords(event.reason)
         THEN "probe_failures"
    ELSE IF "imagepull" \in ReasonKeywords(event.reason)
              \/ "errimagepull" \in ReasonKeywords(event.reason)
         THEN "image_pull_errors"
    ELSE IF MessageKeywords(event.message)
              \cap {"connection refused", "timeout", "network", "dns"} # {}
         THEN "networking_issues"
    ELSE "none"

\* the if/elif chain of k8s_logs_tool.py:313-323: the list the event is appended to
bucket_of(event) ==
    IF event.type # "Warning" THEN "none"
    ELSE IF "oomkilled" \in ReasonKeywords(event.reason) THEN "oom_killed"
    ELSE IF "probe failed" \in MessageKeywords(event.message)
              \/ "unhealthy" \in ReasonKeywords(event.reason)
         THEN "probe_failures"
    ELSE IF "imagepull" \in ReasonKeywords(event.reason)
              \/ "errimagepull" \in ReasonKeywords(event.reason)
         THEN "image_pull_errors"
    ELSE IF MessageKeywords(event.message)
              \cap {"connection refused", "timeout", "network", "dns"} # {}
         THEN "networking_issues"
    ELSE IF "backoff" \in ReasonKeywords(event.reason)
              \/ "crashloop" \in ReasonKeywords(event.reason)
         THEN "restart_loops"
    ELSE "none"

\* items[-20:]
LastEvents(items) ==
    IF Len(items) <= EventWindow THEN items
    ELSE SubSeq(items, Len(items) - EventWindow + 1, Len(items))

\* K8sServiceHealthTool._filter_service_events (k8s_logs_tool.py:281-334):
\* the positions (in the window) of the recorded events and of each bucket
filter_service_events(has_items, items) ==
    IF ~has_items
    THEN [events |-> <<>>, critical_issues |-> [b \in {} |-> <<>>]]
    ELSE LET window == LastEvents(items)
             service_events == SelectSeq(window, LAMBDA e : e.related)
         IN  [events |-> service_events,
              critical_issues |->
                [b \in {BucketNames[i] : i \in DOMAIN BucketNames} |->
                    SelectSeq(service_events, LAMBDA e : bucket_of(e) = b)]]

ApplyFilterServiceEvents ==
    /\ arg.fn = "_filter_service_events"
    /\ ret = <<>>
    /\ ret' = <<filter_service_events(arg.has_items, arg.items)>>
    /\ UNCHANGED <<loopVars, tools, lastCall, cluster, arg>>

MaxLongEvents == 21   \* longest event list given in two orders

\* a list of n related events, all Normal but a Warning OOMKilled one at position p
EventListWith(n, p) ==
    [i \in 1..n |->
        IF i = p
        THEN [type |-> "Warning", reason |-> "OOMKilled",
              message |-> "Started container", related |-> TRUE]
        ELSE [type |-> "Normal", reason |-> "Scheduled",
              message |-> "Started container", related |-> TRUE]]

\* an event list and a permutation of it: the same events with the one
\* Warning at another position
PermutationArgs ==
    {[fn |-> "_filter_service_events twice", items |-> EventListWith(t[1], t[2]),
      permuted |-> EventListWith(t[1], t[3])] :
        t \in {u \in (1..MaxLongEvents) \X (1..MaxLongEvents) \X (1..MaxLongEvents) :
                 u[2] <= u[1] /\ u[3] <= u[1]}}

\* _filter_service_events (k8s_logs_tool.py:281-334) applied to a list and
\* to a permutation of it
ApplyFilterServiceEventsTwice ==
    /\ arg.fn = "_filter_service_events twice"
    /\ ret = <<>>
    /\ ret' = <<filter_service_events(TRUE, arg.items),
                filter_service_events(TRUE, arg.permuted)>>
    /\ UNCHANGED <<loopVars, tools, lastCall, cluster, arg>>

\* the checks of ServiceConnectivityTool.execute (connectivity_tool.py:58-77);
\* http_health runs only for protocol http or https
CheckNames == {"dns_resolution", "port_connectivity", "http_health", "service_discovery"}

\* the "status" each _test_* method can return
CheckStatuses == {"success", "failed", "error"}

\* the tests dict, as its items in insertion order: every order of the checks
\* that ran, every status of each
TestsDicts ==
    LET orders == {o \in SeqsUpTo(CheckNames, 4) :
                      /\ CheckNames \ {"http_health"} \subseteq {o[i] : i \in DOMAIN o}
                      /\ \A i, j \in DOMAIN o : o[i] = o[j] => i = j}
    IN  UNION {{[i \in DOMAIN o |-> [name |-> o[i], status |-> st[i]]] :
                   st \in [DOMAIN o -> CheckStatuses]} : o \in orders}

OverallStatusArgs == [fn : {"_assess_overall_status"}, tests : TestsDicts]

assess_overall_status_HealthyAt75(tests) ==
    LET passed == Cardinality({i \in DOMAIN tests : tests[i].status = "success"})
        total == Len(tests)
        failures == SelectSeq(tests, LAMBDA t :
                       t.status = "failed" /\ t.name \in {"dns_resolution", "service_discovery"})
        critical_failures == [i \in DOMAIN failures |-> failures[i].name]
    IN  [status |-> IF passed * 100 >= 75 * total /\ critical_failures = <<>> THEN "healthy"
                    ELSE IF passed * 100 >= 50 * total THEN "degraded"
                    ELSE "unhealthy",
         passed_tests |-> passed,
         total_tests |-> total,
         critical_failures |-> critical_failures]

\* ServiceConnectivityTool._assess_overall_status (connectivity_tool.py:245-273);
\* success_rate = (passed / total) * 100 is compared as passed * 100 against
\* the threshold times total (total > 0 for every dict execute builds)
assess_overall_status(tests) ==
    LET passed == Cardinality({i \in DOMAIN tests : tests[i].status = "success"})
        total == Len(tests)
        failures == SelectSeq(tests, LAMBDA t :
                       t.status = "failed" /\ t.name \in {"dns_resolution", "service_discovery"})
        critical_failures == [i \in DOMAIN failures |-> failures[i].name]
    IN  [status |-> IF passed * 100 >= 80 * total /\ critical_failures = <<>> THEN "healthy"
                    ELSE IF passed * 100 >= 50 * total THEN "degraded"
                    ELSE "unhealthy",
         passed_tests |-> passed,
         total_tests |-> total,
         critical_failures |-> critical_failures]

ApplyAssessOverallStatus ==
    /\ arg.fn = "_assess_overall_status"
    /\ ret = <<>>
    /\ ret' = <<assess_overall_status(arg.tests)>>
    /\ UNCHANGED <<loopVars, tools, lastCall, cluster, arg>>

MaxCommits == 7   \* commits git log returns for the window

\* the commits parsed by _parse_commits_for_deployments: the is_deployment
\* flag of each
DeploymentAnalysisArgs ==
    [fn : {"git_deployment_analysis"},
     commits : SeqsUpTo([is_deployment : BOOLEAN], MaxCommits)]

\* GitDeploymentAnalysisTool._analyze_deployment_frequency (git_tool.py:499-523);
\* deployment_ratio > 0.5 and > 0.2 are compared as 10 * count against
\* 5 * total and 2 * total
analyze_deployment_frequency(commits) ==
    LET deployment_commits == SelectSeq(commits, LAMBDA c : c.is_deployment)
        count == Len(deployment_commits)
        total == Len(commits)
    IN  IF count < 2
        THEN [frequency |-> "insufficient_data"]
        ELSE [deployment_count |-> count,
              total_commits |-> total,
              pattern |-> IF 10 * count > 5 * total THEN "high_frequency"
                          ELSE IF 10 * count > 2 * total THEN "moderate_frequency"
                          ELSE "low_frequency"]

\* GitDeploymentAnalysisTool._get_risk_recommendation (git_tool.py:553-560)
get_risk_recommendation(risk_level, deployment_count) ==
    IF risk_level = "high"
    THEN "High deployment activity detected. Consider investigating recent changes for correlation with production issues."
    ELSE IF risk_level = "medium"
    THEN "Moderate deployment activity. Review recent deployments if issues coincide with deployment times."
    ELSE "Low deployment risk. Recent code changes less likely to be the primary cause."

assess_deployment_risk_MediumLast(analysis) ==
    LET n == Len(analysis.deployment_commits)
        level1 == IF n > 3 THEN "high" ELSE "low"
        risk_level == IF n > 5 THEN "medium" ELSE level1
    IN  [level |-> risk_level,
         factors |-> (IF n > 0 THEN <<"Recent deployments found">> ELSE <<>>)
                       \o (IF n > 3 THEN <<"Multiple recent deployments">> ELSE <<>>)
                       \o (IF n > 5 THEN <<"High deployment frequency detected">> ELSE <<>>),
         recommendation |-> get_risk_recommendation(risk_level, n)]

\* GitDeploymentAnalysisTool._assess_deployment_risk (git_tool.py:525-551):
\* the three ifs in their order, each assigning risk_level
assess_deployment_risk(analysis) ==
    LET n == Len(analysis.deployment_commits)
        level1 == IF n > 5 THEN "medium" ELSE "low"
        risk_level == IF n > 3 THEN "high" ELSE level1
    IN  [level |-> risk_level,
         factors |-> (IF n > 5 THEN <<"High deployment frequency detected">> ELSE <<>>)
                       \o (IF n > 0 THEN <<"Recent deployments found">> ELSE <<>>)
                       \o (IF n > 3 THEN <<"Multiple recent deployments">> ELSE <<>>),
         recommendation |-> get_risk_recommendation(risk_level, n)]

\* GitDeploymentAnalysisTool.execute (git_tool.py:419-431) on the parsed
\* commits, analyze_frequency left at its default
ApplyDeploymentAnalysis ==
    /\ arg.fn = "git_deployment_analysis"
    /\ ret = <<>>
    /\ LET analysis == [total_commits |-> Len(arg.commits),
                        deployment_commits |->
                            SelectSeq(arg.commits, LAMBDA c : c.is_deployment)]
       IN  ret' = <<[total_commits |-> analysis.total_commits,
                     deployment_commits |-> analysis.deployment_commits,
                     frequency_analysis |-> analyze_deployment_frequency(arg.commits),
                     risk_assessment |-> assess_deployment_risk(analysis)]>>
    /\ UNCHANGED <<loopVars, tools, lastCall, cluster, arg>>

MaxLimit == 3   \* largest limit input of kubectl_events

\* the inputs of kubectl_events and the items of kubectl get events: type and
\* reason of each; reason_filter "None" is the absent input
KubectlEventsArgs ==
    [fn : {"kubectl_events"},
     events : SeqsUpTo([type : {"Warning", "Normal"}, reason : {"OOMKilled", "Scheduled"}],
                       MaxEvents),
     limit : 0..MaxLimit,
     event_type : {"all", "Warning"},
     reason_filter : {"None", "oom"}]

\* KubectlEventsTool.execute (kubectl_tool.py:190-238): events[-limit:], the
\* two filters, the critical events
kubectl_events(events, limit, event_type, reason_filter) ==
    LET latest == IF limit = 0 \/ limit >= Len(events) THEN events
                  ELSE SubSeq(events, Len(events) - limit + 1, Len(events))
        kept(e) ==
            /\ event_type = "all" \/ e.type = event_type
            /\ reason_filter = "None" \/ (reason_filter = "oom" /\ e.reason = "OOMKilled")
        filtered_events == SelectSeq(latest, kept)
        critical(e) ==
            e.reason \in {"OOMKilled", "Unhealthy", "BackOff", "Failed"} \/ e.type = "Warning"
    IN  [filtered_events |-> filtered_events,
         critical_events |-> SelectSeq(filtered_events, critical)]

ApplyKubectlEvents ==
    /\ arg.fn = "kubectl_events"
    /\ ret = <<>>
    /\ ret' = <<kubectl_events(arg.events, arg.limit, arg.event_type, arg.reason_filter)>>
    /\ UNCHANGED <<loopVars, tools, lastCall, cluster, arg>>

\* a call by the agent of the function create_agent_tool_wrapper built for a
\* registered probe: the probe, the arguments given, what the external call does
WrapperArgs ==
    UNION {[fn : {"create_agent_tool_wrapper"}, tool : {t}, given : GivenSets(t),
            ext : ExtOutcomes] : t \in ToolIds}

\* the wrapper of hands.py:33-262 called on a registry that holds every probe
ApplyWrapper ==
    /\ arg.fn = "create_agent_tool_wrapper"
    /\ ret = <<>>
    /\ ret' = <<wrapper(ToolIds, arg.tool, arg.given, arg.ext)>>
    /\ UNCHANGED <<loopVars, tools, lastCall, cluster, arg>>

InitFunctions ==
    /\ OthersIdle
    /\ arg \in PopulationArgs \cup HealthArgs \cup NamespaceArgs \cup EventsArgs
                 \cup PermutationArgs
                 \cup OverallStatusArgs
                 \cup DeploymentAnalysisArgs
                 \cup KubectlEventsArgs
                 \cup WrapperArgs
    /\ ret = <<>>

NextFunctions ==
    \/ ApplyInitializeDefaultTools
    \/ ApplyAssessHealth
    \/ ApplyAssessNamespaceHealth
    \/ ApplyFilterServiceEvents
    \/ ApplyFilterServiceEventsTwice
    \/ ApplyAssessOverallStatus
    \/ ApplyDeploymentAnalysis
    \/ ApplyKubectlEvents
    \/ ApplyWrapper

SpecFunctions == InitFunctions /\ [][NextFunctions]_vars

(***************************************************************************)
(* Properties of the catalog population and of the health functions.       *)
(***************************************************************************)

\* C15: in initialize_default_tools, when constructing the probes of an
\* enabled family raises, no probe of that family is registered, every other
\* enabled family whose construction succeeds is registered in full, and the
\* population returns a registry.
C15_FailedFamilyOmitted ==
    (arg # <<>> /\ arg.fn = "initialize_default_tools" /\ ret # <<>>) =>
        \A f \in Families :
            IF f \in arg.enabled /\ Constructs(f, arg.env)
            THEN FamilyTools(f) \subseteq ret[1]
            ELSE FamilyTools(f) \cap ret[1] = {}

\* kubectl is missing, Prometheus is configured: only Prometheus is registered
C15_Witness ==
    /\ arg # <<>>
    /\ arg.fn = "initialize_default_tools"
    /\ arg.enabled = {"kubernetes", "prometheus"}
    /\ ~arg.env.kubectl
    /\ arg.env.prometheus_url
    /\ ret = <<PrometheusTools>>

\* C18: for a single target whose deployment and pod queries succeeded, and
\* for all non-negative desired and ready replica counts, the verdict is
\* healthy iff ready = desired and desired > 0, degraded iff 0 < ready < desired,
\* and unhealthy in every other case.
C18_HealthVerdict ==
    (/\ arg # <<>>
     /\ arg.fn = "_assess_health"
     /\ ret # <<>>
     /\ ~arg.deployment_data.error
     /\ ~arg.pods_error
     /\ arg.deployment_data.has_status)
      => LET desired == arg.deployment_data.replicas
             ready == arg.deployment_data.readyReplicas
         IN  /\ ret[1] = "healthy" <=> (ready = desired /\ desired > 0)
             /\ ret[1] = "degraded" <=> (0 < ready /\ ready < desired)
             /\ ret[1] = "unhealthy" <=>
                  ~((ready = desired /\ desired > 0) \/ (0 < ready /\ ready < desired))

\* C19: in a whole-namespace check a pod counts as running only if its phase
\* is Running and all its containers are ready, a deployment counts as healthy
\* only if ready = desired and desired > 0, and the overall status is healthy
\* only with zero failed pods and zero unhealthy deployments, otherwise
\* degraded if at least one pod is running, otherwise critical.
C19_NamespaceRollUp ==
    (arg # <<>> /\ arg.fn = "_assess_namespace_health" /\ ret # <<>>) =>
        LET pods == arg.pods_result.items
            deps == arg.deployments_result.items
            r == ret[1]
            running == {i \in DOMAIN pods :
                          /\ pods[i].phase = "Running"
                          /\ \A j \in DOMAIN pods[i].containerStatuses :
                                pods[i].containerStatuses[j] = TRUE}
            pending == {i \in DOMAIN pods : pods[i].phase = "Pending"}
            healthy == {i \in DOMAIN deps :
                          deps[i].readyReplicas = deps[i].replicas /\ deps[i].replicas > 0}
        IN  /\ r.running_pods = Cardinality(running)
            /\ r.failed_pods = Len(pods) - Cardinality(running) - Cardinality(pending)
            /\ r.healthy_deployments = Cardinality(healthy)
            /\ r.unhealthy_deployments = Len(deps) - Cardinality(healthy)
            /\ r.overall_status =
                 IF r.failed_pods = 0 /\ r.unhealthy_deployments = 0 THEN "healthy"
                 ELSE IF r.running_pods >= 1 THEN "degraded"
                 ELSE "critical"

\* one pod running with a container not ready, one pod running and ready
C19_Witness ==
    /\ arg # <<>>
    /\ arg.fn = "_assess_namespace_health"
    /\ arg.pods_result.has_items
    /\ arg.pods_result.items =
         <<[phase |-> "Running", containerStatuses |-> <<TRUE, FALSE>>],
           [phase |-> "Running", containerStatuses |-> <<TRUE>>]>>
    /\ ret # <<>>
    /\ ret[1].running_pods = 1
    /\ ret[1].failed_pods = 1
    /\ ret[1].overall_status = "degraded"

\* whether an event meets the condition of bucket number i of BucketNames
C20_Matches(e, i) ==
    CASE i = 1 -> "oomkilled" \in ReasonKeywords(e.reason)
      [] i = 2 -> "probe failed" \in MessageKeywords(e.message)
                    \/ "unhealthy" \in ReasonKeywords(e.reason)
      [] i = 3 -> ReasonKeywords(e.reason) \cap {"imagepull", "errimagepull"} # {}
      [] i = 4 -> MessageKeywords(e.message)
                    \cap {"connection refused", "timeout", "network", "dns"} # {}
      [] i = 5 -> ReasonKeywords(e.reason) \cap {"backoff", "crashloop"} # {}

\* the bucket numbers an event may be put in: none when it is not a Warning,
\* otherwise the first one in the fixed order whose condition it meets
C20_Expected(e) ==
    LET matching == {i \in DOMAIN BucketNames : C20_Matches(e, i)}
    IN  IF e.type # "Warning" \/ matching = {} THEN {}
        ELSE {CHOOSE i \in matching : \A j \in matching : i <= j}

\* C20: event triage puts each considered event in at most one of the five
\* buckets, the first that matches in the order oom_killed, probe failure,
\* image-pull failure, networking failure, restart loop; an event whose type
\* is not Warning is recorded in the event list and is in no bucket.
C20_FirstMatchingBucket ==
    (arg # <<>> /\ arg.fn = "_filter_service_events" /\ ret # <<>> /\ arg.has_items) =>
        LET r == ret[1]
            In(e, i) == \E k \in DOMAIN r.critical_issues[BucketNames[i]] :
                           r.critical_issues[BucketNames[i]][k] = e
        IN  /\ r.events = SelectSeq(LastEvents(arg.items), LAMBDA e : e.related)
            /\ \A n \in DOMAIN r.events :
                  {i \in DOMAIN BucketNames : In(r.events[n], i)} = C20_Expected(r.events[n])
            /\ \A i \in DOMAIN BucketNames :
                  Len(r.critical_issues[BucketNames[i]]) =
                    Cardinality({n \in DOMAIN r.events : C20_Expected(r.events[n]) = {i}})

\* a Warning that meets the image-pull and the restart-loop conditions goes to
\* image_pull_errors alone; a Normal OOMKilled event is recorded, not bucketed
C20_Witness ==
    /\ arg # <<>>
    /\ arg.fn = "_filter_service_events"
    /\ arg.items =
         <<[type |-> "Warning", reason |-> "ImagePullBackOff",
            message |-> "Started container", related |-> TRUE],
           [type |-> "Normal", reason |-> "OOMKilled",
            message |-> "Started container", related |-> TRUE]>>
    /\ ret # <<>>
    /\ Len(ret[1].events) = 2
    /\ Len(ret[1].critical_issues["image_pull_errors"]) = 1
    /\ Len(ret[1].critical_issues["restart_loops"]) = 0
    /\ Len(ret[1].critical_issues["oom_killed"]) = 0

(***************************************************************************)
(* SpecCatalog: ToolRegistry._tools as the dict it is, id -> probe         *)
(* instance, under a sequence of register_tool calls.  arg is the sequence *)
(* of probes registered so far, ret[1] the dict.                           *)
(***************************************************************************)
MaxRegistrations == 3   \* register_tool calls made
MaxInstances == 2       \* instances of one probe class

CatalogIds == {"k8s_logs", "kubectl_command", "prometheus_query"}

\* a probe object: tool.metadata.id and which instance of its class it is
ProbeInstances == [id : CatalogIds, instance : 1..MaxInstances]

\* dict.get's None
NoProbe == [id |-> "None", instance |-> 0]

\* the empty dict of ToolRegistry.__init__
EmptyDict == [k \in {} |-> NoProbe]

tools_setitem_KeepFirst(d, tool) ==
    IF tool.id \in DOMAIN d THEN d
    ELSE [k \in DOMAIN d \cup {tool.id} |-> IF k = tool.id THEN tool ELSE d[k]]

\* self._tools[tool.metadata.id] = tool (base_tool.py:77)
tools_setitem(d, tool) ==
    [k \in DOMAIN d \cup {tool.id} |-> IF k = tool.id THEN tool ELSE d[k]]

\* self._tools.get(tool_id) (base_tool.py:81)
tools_get(d, tool_id) == IF tool_id \in DOMAIN d THEN d[tool_id] ELSE NoProbe

\* [tool.metadata for tool in self._tools.values()] (base_tool.py:85): the
\* descriptor id found at each key
tools_metadata(d) == [k \in DOMAIN d |-> d[k].id]

InitCatalog ==
    /\ OthersIdle
    /\ arg = <<>>
    /\ ret = <<EmptyDict>>

\* ToolRegistry.register_tool (base_tool.py:75-77)
RegisterProbe ==
    /\ Len(arg) < MaxRegistrations
    /\ \E tool \in ProbeInstances :
         /\ arg' = Append(arg, tool)
         /\ ret' = <<tools_setitem(ret[1], tool)>>
    /\ UNCHANGED <<loopVars, tools, lastCall, cluster>>

NextCatalog == RegisterProbe

SpecCatalog == InitCatalog /\ [][NextCatalog]_vars

\* C16: register_tool inserts the probe under its id and replaces a probe
\* registered earlier under that id: after any sequence of registrations the
\* catalog holds, for each distinct id, exactly the last probe registered
\* under it; get_tool returns that probe, or absence for an id never
\* registered; list_tools returns exactly one descriptor per registered id.
C16_LastRegistrationWins ==
    LET d == ret[1]
        ids == {arg[i].id : i \in DOMAIN arg}
        last(id) == arg[CHOOSE i \in DOMAIN arg :
                          /\ arg[i].id = id
                          /\ \A j \in DOMAIN arg : arg[j].id = id => j <= i]
    IN  /\ DOMAIN d = ids
        /\ \A id \in ids : d[id] = last(id) /\ tools_get(d, id) = last(id)
        /\ \A id \in CatalogIds \ ids : tools_get(d, id) = NoProbe
        /\ DOMAIN tools_metadata(d) = ids
        /\ \A id \in ids : tools_metadata(d)[id] = id

\* k8s_logs was registered, then another probe, then a second k8s_logs instance
C16_Witness ==
    /\ Len(arg) = 3
    /\ arg[1] = [id |-> "k8s_logs", instance |-> 1]
    /\ arg[2].id = "kubectl_command"
    /\ arg[3] = [id |-> "k8s_logs", instance |-> 2]
    /\ ret[1]["k8s_logs"].instance = 2
    /\ DOMAIN ret[1] = {"k8s_logs", "kubectl_command"}

(***************************************************************************)
(* SpecCluster: what the external commands of the probes do to the         *)
(* inspected namespace.  cluster is the set of objects present in it, arg  *)
(* the latest command.                                                     *)
(***************************************************************************)
\* the objects of the inspected service
Resources == {"deployment/api", "pod/api-1", "service/api", "configmap/api"}

\* the pods ServiceConnectivityTool starts with kubectl run --rm
\* (connectivity_tool.py:99, 135, 176)
TestPods == {"pod/connectivity-test", "pod/port-test", "pod/http-test"}

\* kubectl subcommands the command input of kubectl_command may hold
KubectlCommands == [verb : {"get", "describe", "delete"}, target : Resources]

\* the effect of ["kubectl"] + command.split() on the namespace
kubectl_effect(objects, command) ==
    IF command.verb = "delete" THEN objects \ {command.target} ELSE objects

\* probes whose external calls are kubectl get / kubectl logs, HTTP GET or git log
QueryProbes == ToolIds \ {"kubectl_command", "service_connectivity"}

InitCluster ==
    /\ LoopIdle
    /\ tools = {}
    /\ lastCall = NoCall
    /\ cluster = Resources
    /\ arg = <<>>
    /\ ret = <<>>

\* KubectlTool.execute (kubectl_tool.py:38-70): the subcommand is run as given
KubectlExecute ==
    /\ \E command \in KubectlCommands :
         /\ cluster' = kubectl_effect(cluster, command)
         /\ arg' = <<"kubectl_command", command.verb, command.target>>
    /\ UNCHANGED <<loopVars, tools, lastCall, ret>>

\* kubectl run <name> --rm -i --restart=Never creates the pod ...
ConnectivityTestStarts ==
    /\ \E pod \in TestPods \ cluster :
         /\ cluster' = cluster \cup {pod}
         /\ arg' = <<"service_connectivity", "run", pod>>
    /\ UNCHANGED <<loopVars, tools, lastCall, ret>>

\* ... and deletes it when the attached command exits
ConnectivityTestEnds ==
    /\ \E pod \in TestPods \cap cluster :
         /\ cluster' = cluster \ {pod}
         /\ arg' = <<"service_connectivity", "rm", pod>>
    /\ UNCHANGED <<loopVars, tools, lastCall, ret>>

\* every other probe: the namespace is only read
QueryExecute ==
    /\ \E t \in QueryProbes : arg' = <<t, "get", "None">>
    /\ UNCHANGED <<loopVars, tools, lastCall, ret, cluster>>

NextCluster ==
    \/ KubectlExecute
    \/ ConnectivityTestStarts
    \/ ConnectivityTestEnds
    \/ QueryExecute

SpecCluster == InitCluster /\ [][NextCluster]_vars

\* C17: probes are read-only: executing any probe, any number of times and
\* with any inputs, creates, modifies and deletes nothing in the inspected
\* infrastructure, which therefore stays as it was found.
C17_ProbesAreReadOnly == cluster = Resources

(***************************************************************************)
(* Properties of the triage, connectivity and deployment functions.        *)
(***************************************************************************)

\* the events of a list r that the triage put in bucket b, as a bag of values
C21_InBucket(r, b) ==
    LET l == r.critical_issues[b]
    IN  [e \in {l[i] : i \in DOMAIN l} |-> Cardinality({i \in DOMAIN l : l[i] = e})]

\* C21: event triage is idempotent and order-independent: run again on the
\* same event list it yields the same buckets, and run on a permutation of an
\* event list of any length it assigns every event to the same bucket and
\* yields the same per-bucket counts.
C21_TriageOrderIndependent ==
    (arg # <<>> /\ arg.fn = "_filter_service_events twice" /\ ret # <<>>) =>
        /\ filter_service_events(TRUE, arg.items) = ret[1]
        /\ \A i \in DOMAIN BucketNames :
              /\ Len(ret[1].critical_issues[BucketNames[i]])
                   = Len(ret[2].critical_issues[BucketNames[i]])
              /\ C21_InBucket(ret[1], BucketNames[i]) = C21_InBucket(ret[2], BucketNames[i])

\* C22: the connectivity verdict over the checks that ran is healthy iff the
\* success ratio is at least 80% and neither critical check (name resolution,
\* registration lookup) failed; otherwise degraded iff the ratio is at least
\* 50%; otherwise unhealthy.  3 of 4 with a non-critical failure is degraded,
\* and so is exactly 2 of 4.
C22_ConnectivityVerdict ==
    (arg # <<>> /\ arg.fn = "_assess_overall_status" /\ ret # <<>>) =>
        LET tests == arg.tests
            ran == Len(tests)
            succeeded == Cardinality({i \in DOMAIN tests : tests[i].status = "success"})
            critical_failed ==
                \E i \in DOMAIN tests :
                    /\ tests[i].name \in {"dns_resolution", "service_discovery"}
                    /\ tests[i].status = "failed"
            at_least(percent) == 100 * succeeded >= percent * ran
            verdict == ret[1].status
        IN  /\ verdict = "healthy" <=> (at_least(80) /\ ~critical_failed)
            /\ verdict = "degraded" <=> (~(at_least(80) /\ ~critical_failed) /\ at_least(50))
            /\ verdict = "unhealthy" <=> ~at_least(50)
            /\ (ran = 4 /\ succeeded = 3 /\ ~critical_failed) => verdict = "degraded"
            /\ (ran = 4 /\ succeeded = 2) => verdict = "degraded"

\* four checks ran, only the port check failed: 75%, degraded
C22_Witness ==
    /\ arg # <<>>
    /\ arg.fn = "_assess_overall_status"
    /\ arg.tests = <<[name |-> "dns_resolution", status |-> "success"],
                     [name |-> "port_connectivity", status |-> "failed"],
                     [name |-> "http_health", status |-> "success"],
                     [name |-> "service_discovery", status |-> "success"]>>
    /\ ret # <<>>
    /\ ret[1].status = "degraded"
    /\ ret[1].passed_tests = 3
    /\ ret[1].critical_failures = <<>>

\* C29: for every combination of results of the three or four connectivity
\* checks that ran, the verdict is a function of the number of successes and
\* the number of checks alone: a ratio of at least 80% is reached only when
\* every check succeeded, so the critical failures never change the verdict,
\* and the verdict is the same for every order of the checks.
C29_VerdictFromCountsAlone ==
    (arg # <<>> /\ arg.fn = "_assess_overall_status" /\ ret # <<>>) =>
        LET r == ret[1]
        IN  /\ r.total_tests \in {3, 4}
            /\ (100 * r.passed_tests >= 80 * r.total_tests) => r.passed_tests = r.total_tests
            /\ r.status = IF r.passed_tests = r.total_tests THEN "healthy"
                          ELSE IF 2 * r.passed_tests >= r.total_tests THEN "degraded"
                          ELSE "unhealthy"
            /\ r.passed_tests =
                 Cardinality({n \in CheckNames :
                    \E i \in DOMAIN arg.tests :
                        arg.tests[i].name = n /\ arg.tests[i].status = "success"})

\* the checks in another order than execute's, name resolution failed: the
\* critical failure is listed and the verdict is the one of 3 successes of 4
C29_Witness ==
    /\ arg # <<>>
    /\ arg.fn = "_assess_overall_status"
    /\ Len(arg.tests) = 4
    /\ arg.tests[1] = [name |-> "service_discovery", status |-> "success"]
    /\ arg.tests[4] = [name |-> "dns_resolution", status |-> "failed"]
    /\ ret # <<>>
    /\ ret[1].critical_failures = <<"dns_resolution">>
    /\ ret[1].passed_tests = 3
    /\ ret[1].status = "degraded"

\* C23: for every number of deployment commits found in the window,
\* _assess_deployment_risk returns level high exactly when that number is
\* greater than 3 and low otherwise; medium is never returned; and the
\* recommendation is the fixed text of the returned level.
C23_RiskLevel ==
    (arg # <<>> /\ arg.fn = "git_deployment_analysis" /\ ret # <<>>) =>
        LET found == Cardinality({i \in DOMAIN arg.commits : arg.commits[i].is_deployment})
            risk == ret[1].risk_assessment
        IN  /\ risk.level = "high" <=> found > 3
            /\ risk.level = "low" <=> found <= 3
            /\ risk.level # "medium"
            /\ risk.level = "high" =>
                 risk.recommendation = "High deployment activity detected. Consider investigating recent changes for correlation with production issues."
            /\ risk.level = "low" =>
                 risk.recommendation = "Low deployment risk. Recent code changes less likely to be the primary cause."

\* six deployment commits, more than the medium threshold: the level is high
C23_Witness ==
    /\ arg # <<>>
    /\ arg.fn = "git_deployment_analysis"
    /\ Len(arg.commits) = 6
    /\ \A i \in DOMAIN arg.commits : arg.commits[i].is_deployment
    /\ ret # <<>>
    /\ ret[1].risk_assessment.level = "high"
    /\ Len(ret[1].risk_assessment.factors) = 3

\* C24: for every window with at least one commit, the deployment frequency
\* analysis reports the pattern given by the ratio of deployment commits to
\* total commits: high_frequency above 0.5, moderate_frequency above 0.2 and
\* at most 0.5, low_frequency otherwise.
C24_FrequencyPattern ==
    (/\ arg # <<>>
     /\ arg.fn = "git_deployment_analysis"
     /\ ret # <<>>
     /\ Len(arg.commits) >= 1)
      => LET found == Cardinality({i \in DOMAIN arg.commits : arg.commits[i].is_deployment})
             total == Len(arg.commits)
             frequency == ret[1].frequency_analysis
         IN  /\ "pattern" \in DOMAIN frequency
             /\ frequency.pattern =
                  IF 2 * found > total THEN "high_frequency"
                  ELSE IF 5 * found > total THEN "moderate_frequency"
                  ELSE "low_frequency"

\* C25: for every integer limit >= 0 and every list of cluster events, the
\* kubectl_events probe returns at most limit events: the filtered event list
\* and the critical event list each have length <= limit, and the critical
\* events are a subset of the filtered events.
C25_AtMostLimitEvents ==
    (arg # <<>> /\ arg.fn = "kubectl_events" /\ ret # <<>>) =>
        LET filtered == ret[1].filtered_events
            critical == ret[1].critical_events
        IN  /\ Len(filtered) <= arg.limit
            /\ Len(critical) <= arg.limit
            /\ {critical[i] : i \in DOMAIN critical} \subseteq {filtered[i] : i \in DOMAIN filtered}

\* C26: the constructor-time validation of every probe class reads instance
\* fields such as base_url and repo_path only after the constructor assigned
\* them; hence an enabled Loki or Git family with a valid configuration (URL
\* set; repo path a git repository, git installed) is constructed and ends up
\* registered in the catalog.
C26_ValidFamilyRegistered ==
    (arg # <<>> /\ arg.fn = "initialize_default_tools" /\ ret # <<>>) =>
        /\ ("loki" \in arg.enabled /\ arg.env.loki_url) => LokiTools \subseteq ret[1]
        /\ ("git" \in arg.enabled /\ arg.env.git_repo) => GitTools \subseteq ret[1]

\* C27: in a namespace-wide health check, if the pod query or the deployment
\* query failed (its result carries an error instead of an item list), the
\* overall status is never healthy, as the single-target check reports
\* unknown whenever either of its queries failed.
C27_FailedQueryNotHealthy ==
    /\ (/\ arg # <<>>
        /\ arg.fn = "_assess_namespace_health"
        /\ ret # <<>>
        /\ (~arg.pods_result.has_items \/ ~arg.deployments_result.has_items))
         => ret[1].overall_status # "healthy"
    /\ (/\ arg # <<>>
        /\ arg.fn = "_assess_health"
        /\ ret # <<>>
        /\ (arg.deployment_data.error \/ arg.pods_error))
         => ret[1] = "unknown"

(***************************************************************************)
(* SpecOracle: run_hands_plan with the latest oracle response kept in arg. *)
(***************************************************************************)
\* hands.py:491 with the response of llm().ainvoke (brain.py:116-117) recorded:
\* whether it holds the literal, and what the JSON that brain.py:123-128 would
\* parse is
PlanNextStepOf ==
    /\ \E resp \in Responses :
         /\ PlanReturns(resp)
         /\ arg' = <<[complete |-> resp.complete,
                      content |-> IF resp.fenced # "none" THEN resp.fenced ELSE resp.whole]>>
    /\ UNCHANGED <<cluster, ret>>

NextOracle ==
    \/ \E enabled \in SUBSET Families : \E env \in Envs : InitializeResources(enabled, env)
    \/ BudgetExhausted
    \/ PlanNextStepOf
    \/ PlanFault
    \/ AgentToolCall
    \/ \E output \in Outputs : RunnerReturn(output)
    \/ RunnerFault
    \/ Summarise
    \/ SummariseFault

SpecOracle == Init /\ [][NextOracle]_vars

\* C28: plan_next_step tests for the completion literal before it parses a
\* step: every oracle response that contains PLAN COMPLETE anywhere is
\* returned as the completion signal, even when the response is otherwise a
\* well-formed step descriptor, so that step is never executed: the loop is
\* left, no step is counted and nothing is appended to the history.
C28_CompletionLiteralFirst ==
    (arg # <<>> /\ arg[1].complete) =>
        /\ pc \in {"summarizing", "done", "failed"}
        /\ current_step.seq # planCalls
        /\ history = planSeen
        /\ step_count = Len(history)

\* the second response is a well-formed step that holds the literal: the run
\* ends with the one step executed before it
C28_Witness ==
    /\ arg # <<>>
    /\ arg[1].complete
    /\ arg[1].content = "step"
    /\ planCalls = 2
    /\ Len(history) = 1
    /\ pc = "done"

\* C30: for a probe without a dedicated agent wrapper (loki_logs,
\* loki_metrics, git_commit_history, git_deployment_analysis) the agent-facing
\* function always dispatches with an empty input map; each of these
\* descriptors has a required parameter, so every such call returns the
\* missing-required-inputs error to the agent and the probe's execute is
\* never invoked.
C30_GenericWrapperAlwaysFails ==
    (/\ arg # <<>>
     /\ arg.fn = "create_agent_tool_wrapper"
     /\ ret # <<>>
     /\ arg.tool \in {"loki_logs", "loki_metrics", "git_commit_history",
                      "git_deployment_analysis"})
      => /\ ret[1].call.tool = arg.tool
         /\ ret[1].call.keys = {}
         /\ \E p \in DOMAIN MetadataInputs(arg.tool) :
               ~HasOptional(MetadataInputs(arg.tool)[p])
         /\ ~ret[1].call.executed
         /\ ret[1].kind = "reply"
         /\ ret[1].reply = "error"
         /\ ret[1].call.result.success = FALSE
         /\ ret[1].call.result.error_message = "Missing required inputs"

\* the agent calls git_deployment_analysis while git would answer: the reply
\* is the validation error
C30_Witness ==
    /\ arg # <<>>
    /\ arg.fn = "create_agent_tool_wrapper"
    /\ arg.tool = "git_deployment_analysis"
    /\ arg.ext = "ok"
    /\ ret # <<>>
    /\ ret[1].reply = "error"
    /\ ~ret[1].call.executed
    /\ ret[1].call.keys = {}

====
